---- MODULE Spec2Model ----
(***************************************************************************)
(* Blueprint orchestration engine of klipper_sdk: Orchestrator             *)
(* (load_blueprint, _setup_agents, execute, _execute_phase), Holon and     *)
(* ToolRegistry, as a state machine.                                       *)
(*                                                                         *)
(* Python objects live in a heap of dict objects so that copies and        *)
(* aliases are distinct things: a reference is an index into heap, 0 is    *)
(* None.  Python values are records [kind, num, toks]; a str is the        *)
(* sequence of its tokens (adjacent chunks of characters).                 *)
(***************************************************************************)
EXTENDS Integers, Sequences, FiniteSets, TLC

\* ------------------------------------------------------------------ bounds
\* Number of top-level calls (load_blueprint / execute) the caller makes.
MaxCalls == 3
\* Nesting depth of Holon construction at which the interpreter gives up
\* (stands for sys.getrecursionlimit(), scaled down).
PyRecursionLimit == 4

\* ------------------------------------------------------------ Python values
Absent == "<absent>"

NoneV == [kind |-> "none", num |-> 0, toks |-> <<>>]
IntV(n) == [kind |-> "int", num |-> n, toks |-> <<>>]
StrV(t) == [kind |-> "str", num |-> 0, toks |-> t]

\* bool(v) for the values of the model
Truthy(v) ==
    CASE v.kind = "none" -> FALSE
      [] v.kind = "int" -> v.num # 0
      [] OTHER -> v.toks # <<>>

\* ------------------------------------------------------------------- dicts
\* A dict is the sequence of its items [k, v] in insertion order.
EmptyDict == <<>>

DictKeys(d) == {d[i].k : i \in 1..Len(d)}

DictHas(d, key) == \E i \in 1..Len(d) : d[i].k = key

KeyIndex(d, key) == CHOOSE i \in 1..Len(d) : d[i].k = key

\* dict.get(key): the value, or None when the key is missing
DictGet(d, key) == IF DictHas(d, key) THEN d[KeyIndex(d, key)].v ELSE NoneV

\* d[key] = val
DictSet(d, key, val) ==
    IF DictHas(d, key)
    THEN [d EXCEPT ![KeyIndex(d, key)] = [k |-> key, v |-> val]]
    ELSE Append(d, [k |-> key, v |-> val])

\* ---------------------------------------------------------------- str, repr
Digit(n) == <<"0", "1", "2", "3", "4", "5", "6", "7", "8", "9">>[n + 1]

RECURSIVE NatToks(_)
NatToks(n) == IF n < 10 THEN <<Digit(n)>> ELSE NatToks(n \div 10) \o <<Digit(n % 10)>>

\* str(n) of an int
IntToks(n) == IF n < 0 THEN <<"-">> \o NatToks(0 - n) ELSE NatToks(n)

HasTok(t, c) == \E i \in 1..Len(t) : t[i] = c

RECURSIVE EscapeQuotes(_)
EscapeQuotes(t) ==
    IF t = <<>> THEN <<>>
    ELSE (IF Head(t) = "'" THEN <<"\\'">> ELSE <<Head(t)>>) \o EscapeQuotes(Tail(t))

\* repr(s) of a str: single quotes, unless it holds ' and no "
ReprStr(t) ==
    IF HasTok(t, "'") /\ ~HasTok(t, "\"")
    THEN <<"\"">> \o t \o <<"\"">>
    ELSE <<"'">> \o EscapeQuotes(t) \o <<"'">>

ReprValue(v) ==
    CASE v.kind = "none" -> <<"None">>
      [] v.kind = "int" -> IntToks(v.num)
      [] OTHER -> ReprStr(v.toks)

RECURSIVE ReprItems(_)
ReprItems(d) ==
    IF d = <<>> THEN <<>>
    ELSE ReprStr(<<d[1].k>>) \o <<": ">> \o ReprValue(d[1].v)
         \o (IF Len(d) > 1 THEN <<", ">> ELSE <<>>) \o ReprItems(Tail(d))

\* str(d) of a dict, as the f-string in Holon.execute renders it
ReprDict(d) == <<"{">> \o ReprItems(d) \o <<"}">>

\* ------------------------------------------------------ blueprint documents
\* What yaml.safe_load returns for each file the caller may name.  A step or
\* unit declaration field that the document leaves out is Absent.
ListIn(keys) == [form |-> "list", items |-> keys]
MapIn(pairs) == [form |-> "map", items |-> pairs]
Bind(arg, key) == [arg |-> arg, key |-> key]

StepCfg(name, agent, tool, inputs, outputs) ==
    [name |-> name, agent |-> agent, tool |-> tool, inputs |-> inputs, outputs |-> outputs]

PhaseCfg(name, steps) == [name |-> name, steps |-> steps]

AgentCfg(name, type, path) == [name |-> name, type |-> type, blueprint_path |-> path]

Doc(shape, agentic, structural) ==
    [shape |-> shape, agentic |-> agentic, structural |-> structural]

MainDoc ==
    Doc("dict",
        << AgentCfg("Classifier", Absent, Absent),
           AgentCfg("Echo", Absent, Absent),
           AgentCfg("SubFlow", Absent, "sub.kl") >>,
        << PhaseCfg("P1",
             << StepCfg("classify", "Classifier", "analyze_content_type",
                        ListIn(<<"text">>), "label"),
                StepCfg("rename", "Echo", Absent,
                        MapIn(<<Bind("x", "b"), Bind("b", "a")>>), Absent) >>),
           PhaseCfg("Empty", <<>>),
           PhaseCfg("P2",
             << StepCfg("sub", "SubFlow", Absent, ListIn(<<"text", "n">>), "doubled"),
                StepCfg("notool", "Echo", "missing_tool",
                        ListIn(<<"label", "ghost", "a">>), "x"),
                StepCfg("noagent", Absent, "analyze_content_type",
                        ListIn(<<"text">>), "never"),
                StepCfg("relabel", "Classifier", "analyze_content_type",
                        MapIn(<<Bind("text", "doubled")>>), "label") >>) >>)

SubDoc ==
    Doc("dict",
        << AgentCfg("Inner", Absent, Absent) >>,
        << PhaseCfg("S1",
             << StepCfg("inner_classify", "Inner", "analyze_content_type",
                        ListIn(<<"text">>), "label"),
                StepCfg("inner_overwrite", "Inner", Absent, ListIn(<<"n">>), "n") >>) >>)

GhostDoc ==
    Doc("list",
        << AgentCfg("Echo", Absent, Absent) >>,
        << PhaseCfg("G1",
             << StepCfg("before", "Echo", Absent, ListIn(<<>>), "r1"),
                StepCfg("ghost", "Ghost", Absent, ListIn(<<"r1">>), "r2") >>),
           PhaseCfg("G2",
             << StepCfg("after", "Echo", Absent, ListIn(<<"r1">>), "r3") >>) >>)

ErrDoc ==
    Doc("dict",
        << AgentCfg("Echo", Absent, Absent),
           AgentCfg("Classifier", "agent", Absent) >>,
        << PhaseCfg("E1",
             << StepCfg("before", "Echo", Absent, ListIn(<<"n">>), "r1"),
                StepCfg("boom", "Classifier", "analyze_content_type",
                        MapIn(<<Bind("text", "n")>>), "label") >>),
           PhaseCfg("E2",
             << StepCfg("after", "Echo", Absent, ListIn(<<"label">>), "r3") >>) >>)

LoopDoc ==
    Doc("dict",
        << AgentCfg("Echo", Absent, Absent),
           AgentCfg("Self", "holon", "loop.kl") >>,
        << PhaseCfg("L1",
             << StepCfg("again", "Self", Absent, ListIn(<<"text">>), "out") >>) >>)

PingDoc ==
    Doc("dict",
        << AgentCfg("Pong", Absent, "pong.kl") >>,
        << PhaseCfg("L1",
             << StepCfg("ping", "Pong", Absent, ListIn(<<"text">>), "out") >>) >>)

PongDoc ==
    Doc("dict",
        << AgentCfg("Ping", Absent, "ping.kl") >>,
        << PhaseCfg("L1",
             << StepCfg("pong", "Ping", Absent, ListIn(<<"text">>), "out") >>) >>)

NestedDoc ==
    Doc("dict",
        << AgentCfg("Outer", "holon", "mid.kl") >>,
        << PhaseCfg("N1",
             << StepCfg("outer", "Outer", Absent, ListIn(<<"text">>), "out") >>) >>)

MidDoc ==
    Doc("dict",
        << AgentCfg("Mid", Absent, "sub.kl"),
           AgentCfg("Echo", Absent, Absent) >>,
        << PhaseCfg("M1",
             << StepCfg("mid", "Mid", Absent, MapIn(<<Bind("text", "text")>>), "r"),
                StepCfg("mid_echo", "Echo", "shell", ListIn(<<"r">>), Absent) >>) >>)

BareDoc ==
    Doc("dict",
        << AgentCfg("Echo", Absent, Absent),
           AgentCfg("Bare", "holon", Absent) >>,
        << PhaseCfg("B1",
             << StepCfg("before", "Echo", Absent, ListIn(<<>>), "r1"),
                StepCfg("bare", "Bare", Absent, ListIn(<<"r1">>), "r2") >>) >>)

NoNameDoc ==
    Doc("dict",
        << AgentCfg("Echo", Absent, Absent),
           AgentCfg(Absent, Absent, Absent),
           AgentCfg("Late", Absent, Absent) >>,
        << PhaseCfg("X1",
             << StepCfg("only", "Echo", Absent, ListIn(<<>>), "r1") >>) >>)

\* A document whose steps read a file and then write it
FileDoc ==
    Doc("dict",
        << AgentCfg("Scribe", Absent, Absent) >>,
        << PhaseCfg("F1",
             << StepCfg("read", "Scribe", "read_file",
                        MapIn(<<Bind("path", "file")>>), "seen"),
                StepCfg("write", "Scribe", "write_file",
                        MapIn(<<Bind("path", "file"), Bind("content", "text")>>),
                        "written") >>) >>)

ScalarDoc == Doc("scalar", <<>>, <<>>)

\* An empty file: yaml.safe_load returns None
NullDoc == Doc("null", <<>>, <<>>)

\* The document []
EmptyListDoc == Doc("empty_list", <<>>, <<>>)

\* A non-empty list whose first element is a string, not a map
ListOfScalarDoc == Doc("list_scalar", <<>>, <<>>)

\* Text that is not YAML: yaml.safe_load raises
InvalidYamlDoc == Doc("invalid_yaml", <<>>, <<>>)

Paths ==
    {"main.kl", "sub.kl", "ghost.kl", "err.kl", "loop.kl", "ping.kl", "pong.kl",
     "nested.kl", "mid.kl", "bare.kl", "noname.kl", "scalar.kl", "null.kl",
     "emptylist.kl", "listscalar.kl", "bad.kl", "file.kl"}

FileData(path) ==
    CASE path = "main.kl" -> MainDoc
      [] path = "sub.kl" -> SubDoc
      [] path = "ghost.kl" -> GhostDoc
      [] path = "err.kl" -> ErrDoc
      [] path = "loop.kl" -> LoopDoc
      [] path = "ping.kl" -> PingDoc
      [] path = "pong.kl" -> PongDoc
      [] path = "nested.kl" -> NestedDoc
      [] path = "mid.kl" -> MidDoc
      [] path = "bare.kl" -> BareDoc
      [] path = "noname.kl" -> NoNameDoc
      [] path = "null.kl" -> NullDoc
      [] path = "emptylist.kl" -> EmptyListDoc
      [] path = "listscalar.kl" -> ListOfScalarDoc
      [] path = "bad.kl" -> InvalidYamlDoc
      [] path = "file.kl" -> FileDoc
      [] OTHER -> ScalarDoc

\* Paths the caller may hand to load_blueprint; "nofile.kl" does not exist.
CallerPaths == {"main.kl", "ghost.kl", "err.kl", "loop.kl", "ping.kl",
                "nested.kl", "bare.kl", "noname.kl", "scalar.kl", "null.kl",
                "emptylist.kl", "listscalar.kl", "bad.kl", "file.kl", "nofile.kl"}

\* The files the steps of the documents can name
FilePaths == {"out/notes.txt"}

Url == StrV(<<"https://", "example.com">>)

\* Initial states the caller may hand to execute.
CallerContexts ==
    { EmptyDict,
      <<[k |-> "text", v |-> Url]>>,
      <<[k |-> "n", v |-> IntV(5)], [k |-> "text", v |-> Url]>>,
      <<[k |-> "a", v |-> IntV(1)], [k |-> "b", v |-> IntV(2)]>>,
      <<[k |-> "file", v |-> StrV(<<"out/notes.txt">>)], [k |-> "text", v |-> Url]>>,
      <<[k |-> "text", v |-> StrV(<<>>)], [k |-> "label", v |-> StrV(<<"old">>)],
        [k |-> "x", v |-> IntV(7)]>> }

\* --------------------------------------------------------------- registries
NoTool == [name |-> Absent, cls |-> Absent]

Tool(name, cls) == [name |-> name, cls |-> cls]

\* Variant: the first registration of a name is kept.
ToolRegister_KeepFirst(reg, tool) ==
    IF \E t \in reg : t.name = tool.name THEN reg ELSE reg \cup {tool}

\* ToolRegistry.register: self._tools[tool.name] = tool
ToolRegister(reg, tool) == {t \in reg : t.name # tool.name} \cup {tool}

\* Variant: an unknown name falls back to some registered tool.
GetTool_Fallback(reg, name) ==
    IF \E t \in reg : t.name = name THEN CHOOSE t \in reg : t.name = name
    ELSE CHOOSE t \in reg : t.name = "analyze_content_type"

\* ToolRegistry.get_tool: self._tools.get(name)
GetTool(reg, name) ==
    IF \E t \in reg : t.name = name THEN CHOOSE t \in reg : t.name = name ELSE NoTool

\* ToolRegistry.__init__
DefaultTools ==
    ToolRegister(ToolRegister(ToolRegister({}, Tool("shell_exec", "ShellTool")),
                              Tool("read_file", "FileReadTool")),
                 Tool("write_file", "FileWriteTool"))

NoAgent == [name |-> Absent, kind |-> Absent, orch |-> 0, blueprint_path |-> Absent]

AgentObj(name, kind, orch, path) ==
    [name |-> name, kind |-> kind, orch |-> orch, blueprint_path |-> path]

\* AgentRegistry.register: last registration of a name wins
AgentRegister(reg, agent) == {a \in reg : a.name # agent.name} \cup {agent}

\* AgentRegistry.get_agent: the agent, or None
GetAgent(reg, name) ==
    IF \E a \in reg : a.name = name THEN CHOOSE a \in reg : a.name = name ELSE NoAgent

\* Orchestrator.__init__: no blueprint and no workflow_state attribute yet
NewOrchestrator ==
    [ blueprint |-> Absent,
      agent_registry |-> {},
      tool_registry |->
          ToolRegister(ToolRegister(DefaultTools,
                                    Tool("analyze_content_type", "ContentAnalysisTool")),
                       Tool("predict_workflow_score", "WorkflowPredictionTool")),
      workflow_state |-> 0 ]

\* ------------------------------------------------------------------- state
VARIABLES
    heap,        \* the dict objects: a reference is an index, 0 is None
    orchs,       \* the Orchestrator instances; 1 is the caller's, the others
                 \* are the internal_orchestrator of the Holons
    loadStack,   \* load_blueprint/_setup_agents activations, innermost last
    execStack,   \* execute/_execute_phase activations, innermost last
    status,      \* "idle", "loading" or "running"
    outcome,     \* how the caller's last call ended
    callerCtx,   \* the dict the caller passed to execute (0: none)
    log,         \* unit invocations of the latest execute call, in order:
                 \* the step, the unit, the tool bound, the context passed,
                 \* the state the inputs were read from, the result
    calls,       \* number of calls the caller has made
    preLoad,     \* the latest load_blueprint call of the caller: the path
                 \* given and the caller's Orchestrator as the call found it
    history,     \* the execute calls the caller has made, in order: the
                 \* initial state given, the engine it ran on, how it ended
    files        \* the files read_file and write_file reach: for each path
                 \* the content, None while the file does not exist

engineVars == <<heap, orchs, loadStack, execStack, status, outcome, callerCtx,
                log, calls, preLoad, history, files>>

\* A ToolRegistry and an AgentRegistry driven directly by register calls
VARIABLES
    tools,       \* the ToolRegistry's _tools
    agents,      \* the AgentRegistry's agents
    lastReg      \* for each name, the item the latest register call with that
                 \* name was given (NoTool, NoAgent: no such call yet)

registryVars == <<tools, agents, lastReg>>

\* The backend: requests served by threads that share one Orchestrator
VARIABLES
    bheap,       \* the state dicts the backend's execute calls have created
    shared,      \* the shared Orchestrator's attribute workflow_state: an
                 \* index of bheap, 0 before the first execute
    reqs         \* for each request its thread: where it stands, the step
                 \* it is at, the context it resolved, what execute returned

backendVars == <<bheap, shared, reqs>>

\* A GenerationTracker and the directory base_path it saves to
VARIABLES
    tracker,     \* the attributes generations, current_generation and
                 \* metrics_history of the GenerationTracker in use
    disk,        \* the three JSON files under base_path
    trCall,      \* the latest call made on the tracker: its arguments, what
                 \* it returned
    trOps,       \* number of calls made; it also serves as datetime.now()
    trInitial    \* for each component registered, the initial generation it
                 \* was registered with

trackerVars == <<tracker, disk, trCall, trOps, trInitial>>

\* A GenerationalBlueprintManager and a GenerationalImprovementLoop on the tracker
VARIABLES
    bpFiles,     \* the files gen_<n>.kl under blueprints_dir: blueprint name,
                 \* generation, content
    bpLatest,    \* for each blueprint registered, the content given to its
                 \* latest successful evolve_blueprint, or to register_blueprint
    bpCall,      \* the latest call made on the manager and what it returned
    cycle        \* the run_improvement_cycle call in progress or just ended:
                 \* its position, its arguments, the functions it has called

managerVars == <<bpFiles, bpLatest, bpCall>>

generationalVars == <<trackerVars, managerVars, cycle>>

\* A TemporalPredictor
VARIABLES
    events,      \* self.history: the timestamps added, sorted
    predict      \* the predict_next call in progress or just ended

predictorVars == <<events, predict>>

\* The variables of the other components
otherVars == <<registryVars, backendVars, generationalVars, predictorVars>>

\* The variables the tracker, the manager and the loop leave alone
restVars == <<engineVars, registryVars, backendVars, predictorVars>>

vars == <<engineVars, otherVars>>

NoOutcome == [call |-> "none", err |-> "", ret |-> 0]

\* Names and items the register calls are made with
ToolNames == {"shell_exec", "write_file", "custom_tool"}
ToolClasses == {"ShellTool", "FileWriteTool", "CustomTool"}
AgentNames == {"Echo", "SubFlow"}
AgentKinds == {"agent", "holon"}

\* ToolRegistry(): the three tools its constructor registers; AgentRegistry()
RegistryInit ==
    /\ tools = DefaultTools
    /\ agents = {}
    /\ lastReg = [tool |-> [n \in ToolNames \cup {"read_file"} |->
                               IF \E t \in DefaultTools : t.name = n
                               THEN CHOOSE t \in DefaultTools : t.name = n
                               ELSE NoTool],
                  agent |-> [n \in AgentNames |-> NoAgent]]

\* ------------------------------------------------------- GenerationTracker
\* Calls made on the tracker
MaxTrackerOps == 4

\* Arguments the calls are made with
Components == {"alpha", "beta"}
InitialGenerations == {1, 2}
Descriptions == {"first", "second"}
ChangeSets == {"tuned"}
MetricSets == {EmptyDict, <<[k |-> "accuracy", v |-> IntV(1)]>>}

\* GenerationTracker.__init__ before the load: three empty dicts
NewTracker ==
    [generations |-> EmptyDict, current_generation |-> EmptyDict,
     metrics_history |-> EmptyDict]

NoFile == [exists |-> FALSE, data |-> EmptyDict]

NoCall ==
    [op |-> "none", name |-> "", initial_generation |-> 0, description |-> "",
     changes |-> "", metrics |-> EmptyDict, ret |-> FALSE]

\* A GenerationTracker built on a base_path that holds no file yet
TrackerInit ==
    /\ tracker = NewTracker
    /\ disk = [generations |-> NoFile, current_generation |-> NoFile,
               metrics_history |-> NoFile]
    /\ trCall = NoCall
    /\ trOps = 0
    /\ trInitial = EmptyDict

\* -------------------------------------- blueprint manager, improvement loop
\* Arguments of register_blueprint and evolve_blueprint
Contents == {"v1", "v2"}
BlueprintGenerations == {0, 1}

NoManagerCall == [op |-> "none", name |-> "", content |-> "", generation |-> 0, ret |-> FALSE]

\* What the test function and the improvement function of a cycle return
TestResults ==
    { EmptyDict,
      <<[k |-> "metrics", v |-> <<[k |-> "accuracy", v |-> IntV(1)]>>]>> }
Improvements == { <<>>, <<"cache results">> }

\* The steps of run_improvement_cycle that call a function given or the tracker
CycleOrder == <<"test", "improve", "advance", "validate">>

NoCycle ==
    [pc |-> "idle", name |-> "", registered |-> FALSE, before |-> 0,
     test_results |-> EmptyDict, improvements |-> <<>>, trace |-> <<>>,
     valid |-> FALSE, ret |-> FALSE]

\* A manager on an empty blueprints_dir, a loop that has run no cycle
GenerationalInit ==
    /\ bpFiles = {}
    /\ bpLatest = EmptyDict
    /\ bpCall = NoManagerCall
    /\ cycle = NoCycle

\* -------------------------------------------------------- TemporalPredictor
\* Timestamps, and the number of events added
MaxTime == 3
MaxEvents == 3

NoPredict == [pc |-> "idle", now |-> 0, sum |-> 0, den |-> 1, next |-> 0]

\* TemporalPredictor.__init__
PredictorInit ==
    /\ events = <<>>
    /\ predict = NoPredict

\* Requests the backend serves at the same time
MaxRequests == 2

Requests == 1..MaxRequests

\* backend/main.py after import: the Orchestrator exists, its document is
\* loaded, no request has arrived
BackendInit ==
    /\ bheap = <<>>
    /\ shared = 0
    /\ reqs = [r \in Requests |->
                 [pc |-> "new", step |-> 1, context |-> EmptyDict, ret |-> 0]]

Init ==
    /\ RegistryInit
    /\ BackendInit
    /\ TrackerInit
    /\ GenerationalInit
    /\ PredictorInit
    /\ heap = <<>>
    /\ orchs = <<NewOrchestrator>>
    /\ loadStack = <<>>
    /\ execStack = <<>>
    /\ status = "idle"
    /\ outcome = NoOutcome
    /\ callerCtx = 0
    /\ log = <<>>
    /\ calls = 0
    /\ preLoad = [path |-> Absent, before |-> NewOrchestrator]
    /\ history = <<>>
    /\ files = [p \in FilePaths |-> NoneV]

Top(stack) == stack[Len(stack)]
Pop(stack) == SubSeq(stack, 1, Len(stack) - 1)
SetTop(stack, f) == [stack EXCEPT ![Len(stack)] = f]

\* ----------------------------------------------------------- load_blueprint
\* self.blueprint can answer .get: it is the map of a document
IsMapping(blueprint) ==
    blueprint # Absent /\ FileData(blueprint).shape \in {"list", "dict"}

\* load_blueprint up to the call of _setup_agents: open, yaml.safe_load, the
\* shape test, the assignment of self.blueprint and the read of its planes.
\* The error raised, or "", and the document self.blueprint was assigned, or
\* Absent if the assignment was not reached.
ReadBlueprint(path) ==
    IF path \notin Paths THEN [err |-> "FileNotFoundError", blueprint |-> Absent]
    ELSE LET shape == FileData(path).shape IN
         CASE shape = "invalid_yaml" -> [err |-> "YAMLError", blueprint |-> Absent]
           [] shape \in {"list", "dict"} -> [err |-> "", blueprint |-> path]
           [] shape = "list_scalar" -> [err |-> "AttributeError", blueprint |-> path]
           [] OTHER -> [err |-> "ValueError", blueprint |-> Absent]

Agentic(o) == FileData(o.blueprint).agentic
Structural(o) == FileData(o.blueprint).structural

IsHolon(config) == config.type = "holon" \/ config.blueprint_path # Absent

\* The exception leaves every activation; the orchestrators keep what they had.
AbortLoad(error) ==
    /\ loadStack' = <<>>
    /\ status' = "idle"
    /\ outcome' = [call |-> "load", err |-> error, ret |-> 0]

LoadBlueprint(path) ==
    /\ status = "idle"
    /\ calls < MaxCalls
    /\ calls' = calls + 1
    /\ preLoad' = [path |-> path, before |-> orchs[1]]
    /\ LET r == ReadBlueprint(path) IN
         IF r.err # ""
         THEN /\ outcome' = [call |-> "load", err |-> r.err, ret |-> 0]
              /\ orchs' = IF r.blueprint # Absent
                          THEN [orchs EXCEPT ![1].blueprint = r.blueprint]
                          ELSE orchs
              /\ UNCHANGED <<loadStack, status>>
         ELSE /\ orchs' = [orchs EXCEPT ![1].blueprint = r.blueprint]
              /\ loadStack' = <<[orch |-> 1, idx |-> 1]>>
              /\ status' = "loading"
              /\ outcome' = NoOutcome
    /\ UNCHANGED <<heap, execStack, callerCtx, log, history, files, otherVars>>

\* One pass of the loop of _setup_agents; building a Holon with a
\* blueprint_path enters load_blueprint of its internal orchestrator.
SetupAgents ==
    /\ status = "loading"
    /\ LET f == Top(loadStack)
           configs == Agentic(orchs[f.orch])
       IN
       /\ f.idx <= Len(configs)
       /\ LET config == configs[f.idx]
              inner == Len(orchs) + 1
              r == ReadBlueprint(config.blueprint_path)
          IN
          IF config.name = Absent
          THEN AbortLoad("KeyError") /\ UNCHANGED orchs
          ELSE IF ~IsHolon(config)
          THEN /\ orchs' = [orchs EXCEPT ![f.orch].agent_registry =
                     AgentRegister(@, AgentObj(config.name, "agent", 0, Absent))]
               /\ loadStack' = SetTop(loadStack, [f EXCEPT !.idx = @ + 1])
               /\ UNCHANGED <<status, outcome>>
          ELSE IF config.blueprint_path \in {Absent, ""}
          THEN /\ orchs' = Append([orchs EXCEPT ![f.orch].agent_registry =
                     AgentRegister(@, AgentObj(config.name, "holon", inner,
                                               config.blueprint_path))],
                     NewOrchestrator)
               /\ loadStack' = SetTop(loadStack, [f EXCEPT !.idx = @ + 1])
               /\ UNCHANGED <<status, outcome>>
          ELSE IF Len(loadStack) >= PyRecursionLimit
          THEN AbortLoad("RecursionError") /\ UNCHANGED orchs
          ELSE IF r.err # ""
          THEN AbortLoad(r.err) /\ UNCHANGED orchs
          ELSE /\ orchs' = Append(orchs, [NewOrchestrator EXCEPT !.blueprint = r.blueprint])
               /\ loadStack' = Append(loadStack, [orch |-> inner, idx |-> 1])
               /\ UNCHANGED <<status, outcome>>
    /\ UNCHANGED <<heap, execStack, callerCtx, log, calls, preLoad, history, files,
                   otherVars>>

\* _setup_agents has run out of declarations: load_blueprint returns, to the
\* caller or to the Holon constructor, whose Holon is then registered.
SetupReturn ==
    /\ status = "loading"
    /\ LET f == Top(loadStack) IN
       /\ f.idx > Len(Agentic(orchs[f.orch]))
       /\ IF Len(loadStack) = 1
          THEN /\ loadStack' = <<>>
               /\ status' = "idle"
               /\ outcome' = [call |-> "load", err |-> "", ret |-> 0]
               /\ UNCHANGED orchs
          ELSE LET p == loadStack[Len(loadStack) - 1]
                   config == Agentic(orchs[p.orch])[p.idx]
               IN /\ orchs' = [orchs EXCEPT ![p.orch].agent_registry =
                        AgentRegister(@, AgentObj(config.name, "holon", f.orch,
                                                  config.blueprint_path))]
                  /\ loadStack' = SetTop(Pop(loadStack), [p EXCEPT !.idx = @ + 1])
                  /\ UNCHANGED <<status, outcome>>
    /\ UNCHANGED <<heap, execStack, callerCtx, log, calls, preLoad, history, files,
                   otherVars>>

\* ------------------------------------------------------------ unit execution
\* ContentAnalysisTool.run on the context dict: _analyze_single takes
\* item.get('text', '') or '' and classifies it.  The keywords of the other
\* content types do not occur in the strings of this model.
AnalyzeContent(context) ==
    LET text == DictGet(context, "text") IN
    IF ~Truthy(text) THEN [err |-> "", val |-> StrV(<<"binary">>)]
    ELSE IF text.kind # "str" THEN [err |-> "AttributeError", val |-> NoneV]
    ELSE IF Head(text.toks) \in {"http://", "https://"}
         THEN [err |-> "", val |-> StrV(<<"url">>)]
         ELSE [err |-> "", val |-> StrV(<<"text">>)]

\* The argument names a file the tools can reach
IsFilePath(path, fs) ==
    path.kind = "str" /\ Len(path.toks) = 1 /\ path.toks[1] \in DOMAIN fs

\* FileReadTool.run(path): the content, or the text of the error caught
FileRead(context, fs) ==
    LET path == DictGet(context, "path") IN
    IF IsFilePath(path, fs) /\ fs[path.toks[1]] # NoneV
    THEN fs[path.toks[1]]
    ELSE StrV(<<"Error reading file: ">> \o ReprValue(path))

\* FileWriteTool.run(path, content): open(path, 'w') empties the file before
\* f.write(content) can fail on a content that is not a string
FileWrite(context, fs) ==
    LET path == DictGet(context, "path")
        content == DictGet(context, "content")
    IN IF ~IsFilePath(path, fs)
       THEN [val |-> StrV(<<"Error writing file: ">> \o ReprValue(path)), files |-> fs]
       ELSE IF content.kind # "str"
       THEN [val |-> StrV(<<"Error writing file: ">> \o ReprValue(content)),
             files |-> [fs EXCEPT ![path.toks[1]] = StrV(<<>>)]]
       ELSE [val |-> StrV(<<"Successfully wrote to ">> \o path.toks),
             files |-> [fs EXCEPT ![path.toks[1]] = content]]

\* capability.Run(context) with the files as they are: the error raised or
\* the result, and the files as the tool leaves them
ToolRun(tool, context, fs) ==
    CASE tool.cls = "ContentAnalysisTool" ->
           [err |-> AnalyzeContent(context).err, val |-> AnalyzeContent(context).val,
            files |-> fs]
      [] tool.cls = "FileReadTool" ->
           [err |-> "", val |-> FileRead(context, fs), files |-> fs]
      [] tool.cls = "FileWriteTool" ->
           [err |-> "", val |-> FileWrite(context, fs).val,
            files |-> FileWrite(context, fs).files]
      [] OTHER ->
           [err |-> "", val |-> StrV(<<"<", tool.name, " output>">>), files |-> fs]

\* Agent.execute(context, tools): the tool's result, or a placeholder when
\* no tool is bound
AgentExecute(agent, context, tool, fs) ==
    IF tool = NoTool
    THEN [err |-> "", val |-> StrV(<<"[", agent.name, "] ", "no tool bound">>),
          files |-> fs]
    ELSE ToolRun(tool, context, fs)

\* Variant: the summary names the Holon and leaves the results out.
HolonSummary_NoResults(name, results) ==
    StrV(<<"Holon ", name, " completed sub-workflow.">>)

\* The summary Holon.execute returns
HolonSummary(name, results) ==
    StrV(<<"Holon ", name, " completed sub-workflow. Results: ">> \o ReprDict(results))

\* Variant: no copy is made, the same object is handed on.
DictCopy_Alias(h, ref) == [heap |-> h, ref |-> ref]

\* dict.copy(): a new object with the same items
DictCopy(h, ref) == [heap |-> Append(h, h[ref]), ref |-> Len(h) + 1]

\* ------------------------------------------------------------------ execute
\* Variant: the whole workflow state is handed over as the context.
ResolveList_WholeState(keys, state, context) == state

RECURSIVE ResolveList(_, _, _)
ResolveList(keys, state, context) ==
    IF keys = <<>> THEN context
    ELSE ResolveList(Tail(keys), state,
                     DictSet(context, Head(keys), DictGet(state, Head(keys))))

\* Variant: the argument name is looked up in the state, not the state key.
RECURSIVE ResolveMap_ByArg(_, _, _)
ResolveMap_ByArg(pairs, state, context) ==
    IF pairs = <<>> THEN context
    ELSE ResolveMap_ByArg(Tail(pairs), state,
                          DictSet(context, Head(pairs).arg, DictGet(state, Head(pairs).arg)))

RECURSIVE ResolveMap(_, _, _)
ResolveMap(pairs, state, context) ==
    IF pairs = <<>> THEN context
    ELSE ResolveMap(Tail(pairs), state,
                    DictSet(context, Head(pairs).arg, DictGet(state, Head(pairs).key)))

\* "Resolve Inputs" of _execute_phase
ResolveInputs(inputs, state) ==
    CASE inputs.form = "list" -> ResolveList(inputs.items, state, EmptyDict)
      [] inputs.form = "map" -> ResolveMap(inputs.items, state, EmptyDict)
      [] OTHER -> EmptyDict

\* Variant: the result is never stored.
StoreOutputs_Dropped(state, step, result) == state

\* Variant: the result is stored whether or not an output key is declared.
StoreOutputs_Always(state, step, result) == DictSet(state, step.outputs, result)

\* "Store Outputs" of _execute_phase
StoreOutputs(state, step, result) ==
    IF step.outputs \notin {Absent, ""}
    THEN DictSet(state, step.outputs, result)
    ELSE state

\* Variant: the new run starts from the state the previous run left, updated
\* with the context given.
ExecuteEntry_KeepState(h, o, ref) ==
    LET given == ref # 0 /\ h[ref] # EmptyDict
        old == IF o.workflow_state # 0 THEN h[o.workflow_state] ELSE EmptyDict
        merged == IF given
                  THEN ResolveList([i \in 1..Len(h[ref]) |-> h[ref][i].k], h[ref], old)
                  ELSE old
        h1 == Append(h, merged)
    IN IF ~IsMapping(o.blueprint)
       THEN [err |-> "AttributeError", heap |-> h1, ws |-> 0]
       ELSE [err |-> "", heap |-> h1, ws |-> Len(h1)]

\* Variant: an engine without a document runs as one with an empty document.
ExecuteEntry_Unloaded(h, o, ref) ==
    LET given == ref # 0 /\ h[ref] # EmptyDict
        h1 == IF given THEN h ELSE Append(h, EmptyDict)
        dynamic_context == IF given THEN ref ELSE Len(h1)
        copy == DictCopy(h1, dynamic_context)
    IN [err |-> "", heap |-> copy.heap, ws |-> copy.ref]

\* The head of execute, up to the phase loop: dynamic_context or {}, the
\* read of self.blueprint, the copy that becomes self.workflow_state.
ExecuteEntry(h, o, ref) ==
    LET given == ref # 0 /\ h[ref] # EmptyDict
        h1 == IF given THEN h ELSE Append(h, EmptyDict)
        dynamic_context == IF given THEN ref ELSE Len(h1)
        copy == DictCopy(h1, dynamic_context)
    IN IF ~IsMapping(o.blueprint)
       THEN [err |-> "AttributeError", heap |-> h1, ws |-> 0]
       ELSE [err |-> "", heap |-> copy.heap, ws |-> copy.ref]

\* Variant: binding the new state also empties the unit registry.
BindState_ClearUnits(os, i, ws) ==
    [os EXCEPT ![i].workflow_state = ws, ![i].agent_registry = {}]

\* self.workflow_state = dynamic_context.copy(): the attribute is bound
BindState(os, i, ws) == [os EXCEPT ![i].workflow_state = ws]

Frame(orch) == [orch |-> orch, phase |-> 1, step |-> 1, ctx |-> 0, call |-> 0]

\* The exception leaves every activation; self.workflow_state stays as it is.
AbortExecute(error) ==
    /\ execStack' = <<>>
    /\ status' = "idle"
    /\ outcome' = [call |-> "execute", err |-> error, ret |-> 0]

\* The engine an execute call runs on: the orchestrators without their states
Engine(os) == [i \in 1..Len(os) |-> [os[i] EXCEPT !.workflow_state = 0]]

RunStart(ctx) ==
    [ctx |-> ctx, engine |-> Engine(orchs), err |-> "", final |-> EmptyDict,
     log |-> <<>>, over |-> FALSE]

\* The caller's execute call ends: with an error, or returning the state final
EndRun(error, final, lg) ==
    history' = [history EXCEPT ![Len(history)] =
                   [@ EXCEPT !.err = error, !.final = final, !.log = lg, !.over = TRUE]]

Execute(given, ctx) ==
    /\ status = "idle"
    /\ calls < MaxCalls
    /\ calls' = calls + 1
    /\ ~given => ctx = EmptyDict
    /\ LET h0 == IF given THEN Append(heap, ctx) ELSE heap
           ref == IF given THEN Len(h0) ELSE 0
           e == ExecuteEntry(h0, orchs[1], ref)
       IN /\ callerCtx' = ref
          /\ heap' = e.heap
          /\ IF e.err # ""
             THEN /\ outcome' = [call |-> "execute", err |-> e.err, ret |-> 0]
                  /\ history' = Append(history,
                         [RunStart(ctx) EXCEPT !.err = e.err, !.over = TRUE])
                  /\ UNCHANGED <<orchs, execStack, status, log>>
             ELSE /\ orchs' = BindState(orchs, 1, e.ws)
                  /\ execStack' = <<Frame(1)>>
                  /\ status' = "running"
                  /\ outcome' = NoOutcome
                  /\ log' = <<>>
                  /\ history' = Append(history, RunStart(ctx))
    /\ UNCHANGED <<loadStack, preLoad, files, otherVars>>

\* The log entry of the Holon call a run is nested in (0: the caller's run)
ParentCall(stack) == IF Len(stack) > 1 THEN stack[Len(stack) - 1].call ELSE 0

CurrentStep(f) == Structural(orchs[f.orch])[f.phase].steps[f.step]

InStep(f) ==
    /\ f.phase <= Len(Structural(orchs[f.orch]))
    /\ f.step <= Len(Structural(orchs[f.orch])[f.phase].steps)

\* Variant: a step without an agent name is looked up like any other.
SkipsStep_Never(step) == FALSE

\* if not agent_name: continue
SkipsStep(step) == step.agent \in {Absent, ""}

\* One pass of the loop of _execute_phase.  A Holon's execute enters the
\* execute of its internal orchestrator.
ExecuteStep ==
    /\ status = "running"
    /\ LET f == Top(execStack) IN
       /\ InStep(f)
       /\ LET o == orchs[f.orch]
              step == CurrentStep(f)
              agent == GetAgent(o.agent_registry, step.agent)
              tool == IF step.tool \notin {Absent, ""}
                      THEN GetTool(o.tool_registry, step.tool) ELSE NoTool
              state == heap[o.workflow_state]
              context == ResolveInputs(step.inputs, state)
              h1 == Append(heap, context)
              cref == Len(h1)
              entry == [depth |-> Len(execStack), parent |-> ParentCall(execStack),
                        orch |-> f.orch, phase |-> f.phase,
                        step |-> f.step, cfg |-> step, unit |-> agent, tool |-> tool.name,
                        ctx |-> context, state |-> state, result |-> NoneV,
                        done |-> FALSE]
              r == AgentExecute(agent, context, tool, files)
              inner == IF context # EmptyDict THEN DictCopy(h1, cref)
                       ELSE [heap |-> Append(h1, EmptyDict), ref |-> Len(h1) + 1]
              e == ExecuteEntry(inner.heap, orchs[agent.orch], inner.ref)
          IN
          IF SkipsStep(step)
          THEN /\ execStack' = SetTop(execStack, [f EXCEPT !.step = @ + 1])
               /\ UNCHANGED <<heap, orchs, status, outcome, log, history, files>>
          ELSE IF agent = NoAgent
          THEN /\ AbortExecute("AttributeError")
               /\ EndRun("AttributeError", EmptyDict, log)
               /\ heap' = h1
               /\ UNCHANGED <<orchs, log, files>>
          ELSE IF agent.kind = "agent"
          THEN IF r.err # ""
               THEN /\ AbortExecute(r.err)
                    /\ EndRun(r.err, EmptyDict, Append(log, entry))
                    /\ heap' = h1
                    /\ log' = Append(log, entry)
                    /\ files' = r.files
                    /\ UNCHANGED orchs
               ELSE /\ heap' = [h1 EXCEPT ![o.workflow_state] =
                                    StoreOutputs(@, step, r.val)]
                    /\ execStack' = SetTop(execStack, [f EXCEPT !.step = @ + 1])
                    /\ log' = Append(log, [entry EXCEPT !.result = r.val, !.done = TRUE])
                    /\ files' = r.files
                    /\ UNCHANGED <<orchs, status, outcome, history>>
          ELSE IF e.err # ""
               THEN /\ AbortExecute(e.err)
                    /\ EndRun(e.err, EmptyDict, Append(log, entry))
                    /\ heap' = e.heap
                    /\ log' = Append(log, entry)
                    /\ UNCHANGED <<orchs, files>>
               ELSE /\ heap' = e.heap
                    /\ orchs' = BindState(orchs, agent.orch, e.ws)
                    /\ execStack' = Append(
                           SetTop(execStack, [f EXCEPT !.ctx = cref, !.call = Len(log) + 1]),
                           Frame(agent.orch))
                    /\ log' = Append(log, entry)
                    /\ UNCHANGED <<status, outcome, history, files>>
    /\ UNCHANGED <<loadStack, callerCtx, calls, preLoad, otherVars>>

\* _execute_phase returns: the loop of execute goes on to the next phase
ExecutePhaseEnd ==
    /\ status = "running"
    /\ LET f == Top(execStack) IN
       /\ f.phase <= Len(Structural(orchs[f.orch]))
       /\ ~InStep(f)
       /\ execStack' = SetTop(execStack, [f EXCEPT !.phase = @ + 1, !.step = 1])
    /\ UNCHANGED <<heap, orchs, loadStack, status, outcome, callerCtx, log, calls,
                   preLoad, history, files, otherVars>>

\* execute returns self.workflow_state: to the caller, or to Holon.execute,
\* whose summary the parent's step then stores
ExecuteReturn ==
    /\ status = "running"
    /\ LET f == Top(execStack)
           o == orchs[f.orch]
       IN
       /\ f.phase > Len(Structural(o))
       /\ IF Len(execStack) = 1
          THEN /\ execStack' = <<>>
               /\ status' = "idle"
               /\ outcome' = [call |-> "execute", err |-> "", ret |-> o.workflow_state]
               /\ EndRun("", heap[o.workflow_state], log)
               /\ UNCHANGED <<heap, log>>
          ELSE LET p == execStack[Len(execStack) - 1]
                   po == orchs[p.orch]
                   step == CurrentStep(p)
                   holon == GetAgent(po.agent_registry, step.agent)
                   result == HolonSummary(holon.name, heap[o.workflow_state])
               IN /\ heap' = [heap EXCEPT ![po.workflow_state] =
                                   StoreOutputs(@, step, result)]
                  /\ execStack' = SetTop(Pop(execStack),
                         [p EXCEPT !.step = @ + 1, !.ctx = 0, !.call = 0])
                  /\ log' = [log EXCEPT ![p.call].result = result, ![p.call].done = TRUE]
                  /\ UNCHANGED <<status, outcome, history>>
    /\ UNCHANGED <<orchs, loadStack, callerCtx, calls, preLoad, files, otherVars>>

Next ==
    \/ \E path \in CallerPaths : LoadBlueprint(path)
    \/ SetupAgents
    \/ SetupReturn
    \/ \E given \in BOOLEAN, ctx \in CallerContexts : Execute(given, ctx)
    \/ ExecuteStep
    \/ ExecutePhaseEnd
    \/ ExecuteReturn

Spec == Init /\ [][Next]_vars

\* ---------------------------------------------------------------- the backend
\* workflow_prediction.kl: the steps analyze_entries and predict_workflow;
\* predict_workflow() reads the key prediction from the state execute returns
PredictionSteps ==
    << StepCfg("analyze_entries", "Analyst", "analyze_content_type",
               ListIn(<<"entries">>), "analysis"),
       StepCfg("predict_workflow", "Predictor", "predict_workflow_score",
               ListIn(<<"analysis">>), "prediction") >>

\* The entries request r fetched, and every value computed from them
Entries(r) == IntV(r)

\* What a unit computes is derived from the context it was called with
Derived(context) == IF context = EmptyDict THEN NoneV ELSE context[1].v

\* get_prediction -> predict_workflow -> orchestrator.execute, up to
\* self.workflow_state = dynamic_context.copy()
BackendExecute(r) ==
    /\ reqs[r].pc = "new"
    /\ bheap' = Append(bheap, DictSet(EmptyDict, "entries", Entries(r)))
    /\ shared' = Len(bheap) + 1
    /\ reqs' = [reqs EXCEPT ![r].pc = "resolve"]
    /\ UNCHANGED <<engineVars, registryVars, generationalVars, predictorVars>>

\* _execute_phase, "Resolve Inputs": the context is read from
\* self.workflow_state
BackendResolve(r) ==
    /\ reqs[r].pc = "resolve"
    /\ reqs' = [reqs EXCEPT
                  ![r].context = ResolveInputs(PredictionSteps[reqs[r].step].inputs,
                                               bheap[shared]),
                  ![r].pc = "store"]
    /\ UNCHANGED <<bheap, shared, engineVars, registryVars, generationalVars,
                   predictorVars>>

\* _execute_phase, agent.execute and "Store Outputs": the result is written
\* to self.workflow_state
BackendStore(r) ==
    /\ reqs[r].pc = "store"
    /\ bheap' = [bheap EXCEPT ![shared] =
                    StoreOutputs(@, PredictionSteps[reqs[r].step],
                                 Derived(reqs[r].context))]
    /\ reqs' = [reqs EXCEPT
                  ![r].step = @ + 1,
                  ![r].pc = IF reqs[r].step = Len(PredictionSteps)
                            THEN "return" ELSE "resolve"]
    /\ UNCHANGED <<shared, engineVars, registryVars, generationalVars, predictorVars>>

\* return self.workflow_state
BackendReturn(r) ==
    /\ reqs[r].pc = "return"
    /\ reqs' = [reqs EXCEPT ![r].ret = shared, ![r].pc = "done"]
    /\ UNCHANGED <<bheap, shared, engineVars, registryVars, generationalVars,
                   predictorVars>>

\* The endpoint is a plain def: the server runs each request on a thread of
\* its pool, and no lock is taken around execute
BackendNext ==
    \E r \in Requests :
        \/ BackendExecute(r)
        \/ BackendResolve(r)
        \/ BackendStore(r)
        \/ BackendReturn(r)

BackendSpec == Init /\ [][BackendNext]_vars

\* ------------------------------------------------------ the GenerationTracker
\* json.dump writes a key that is an int as the string of its digits
JsonKey(k) == IF k.kind = "int" THEN StrV(IntToks(k.num)) ELSE k

\* A dict with generation keys as json.dump writes and json.load reads it
RECURSIVE JsonObject(_, _)
JsonObject(d, acc) ==
    IF d = <<>> THEN acc
    ELSE JsonObject(Tail(d), DictSet(acc, JsonKey(Head(d).k), Head(d).v))

\* self.generations through json.dump and json.load
JsonGenerations(gens) ==
    [i \in 1..Len(gens) |->
        [k |-> gens[i].k,
         v |-> [gens[i].v EXCEPT !.generations = JsonObject(@, EmptyDict)]]]

\* Variant: the file of current generations is not written.
SaveGenerationalData_Partial(t) ==
    [generations |-> [exists |-> TRUE, data |-> JsonGenerations(t.generations)],
     current_generation |-> NoFile,
     metrics_history |-> [exists |-> TRUE, data |-> t.metrics_history]]

\* _save_generational_data: the three files are rewritten
SaveGenerationalData(t) ==
    [generations |-> [exists |-> TRUE, data |-> JsonGenerations(t.generations)],
     current_generation |-> [exists |-> TRUE, data |-> t.current_generation],
     metrics_history |-> [exists |-> TRUE, data |-> t.metrics_history]]

\* _load_generational_data: each file that exists replaces its attribute
LoadGenerationalData(d) ==
    [generations |-> IF d.generations.exists THEN d.generations.data ELSE EmptyDict,
     current_generation |-> IF d.current_generation.exists
                            THEN d.current_generation.data ELSE EmptyDict,
     metrics_history |-> IF d.metrics_history.exists
                         THEN d.metrics_history.data ELSE EmptyDict]

\* The entry register_component creates
ComponentInfo(initial_generation, description, now) ==
    [generations |-> EmptyDict, current_generation |-> initial_generation,
     description |-> description, dependencies |-> <<>>,
     created_at |-> now, last_updated |-> now]

\* Variant: registering a registered name replaces its entry.
RegisterComponent_Replace(t, name, initial_generation, description, now) ==
    [ret |-> TRUE, saved |-> TRUE,
     tracker |-> [t EXCEPT
        !.generations = DictSet(@, name, ComponentInfo(initial_generation, description, now)),
        !.current_generation = DictSet(@, name, initial_generation)]]

\* register_component: what it returns, the tracker after it, whether it saved
RegisterComponent(t, name, initial_generation, description, now) ==
    IF DictHas(t.generations, name)
    THEN [ret |-> FALSE, saved |-> FALSE, tracker |-> t]
    ELSE [ret |-> TRUE, saved |-> TRUE,
          tracker |-> [t EXCEPT
             !.generations = DictSet(@, name, ComponentInfo(initial_generation, description, now)),
             !.current_generation = DictSet(@, name, initial_generation)]]

\* _calculate_checksum
Checksum(changes) == <<"md5", changes>>

\* The record advance_generation stores for the generation that ends
GenerationData(current_gen, changes, metrics, now) ==
    [version |-> current_gen, changes |-> changes, metrics |-> metrics,
     timestamp |-> now, checksum |-> Checksum(changes)]

\* The record appended to metrics_history
MetricsRecord(current_gen, metrics, now) ==
    [generation |-> current_gen, timestamp |-> now, metrics |-> metrics]

\* The tracker after advance_generation on a registered component, the history
\* entry stored under the key histKey
StoreGeneration(t, name, changes, metrics, now, histKey) ==
    LET current_gen == DictGet(t.current_generation, name)
        info == DictGet(t.generations, name)
        before == IF DictHas(t.metrics_history, name)
                  THEN DictGet(t.metrics_history, name) ELSE <<>>
    IN [t EXCEPT
          !.generations = DictSet(@, name,
              [info EXCEPT
                 !.generations = DictSet(@, IntV(histKey),
                                         GenerationData(current_gen, changes, metrics, now)),
                 !.current_generation = current_gen + 1,
                 !.last_updated = now]),
          !.current_generation = DictSet(@, name, current_gen + 1),
          !.metrics_history =
              IF metrics # EmptyDict
              THEN DictSet(@, name, Append(before, MetricsRecord(current_gen, metrics, now)))
              ELSE @]

\* Variant: the history entry is stored under the new generation.
AdvanceGeneration_KeyNext(t, name, changes, metrics, now) ==
    IF ~DictHas(t.generations, name)
    THEN [ret |-> FALSE, saved |-> FALSE, tracker |-> t]
    ELSE [ret |-> TRUE, saved |-> TRUE,
          tracker |-> StoreGeneration(t, name, changes, metrics, now,
                                       DictGet(t.current_generation, name) + 1)]

\* Variant: the generation is raised and no history entry is stored.
AdvanceGeneration_Unrecorded(t, name, changes, metrics, now) ==
    IF ~DictHas(t.generations, name)
    THEN [ret |-> FALSE, saved |-> FALSE, tracker |-> t]
    ELSE LET current_gen == DictGet(t.current_generation, name)
         IN [ret |-> TRUE, saved |-> TRUE,
             tracker |-> [t EXCEPT
                !.generations = DictSet(@, name,
                    [DictGet(t.generations, name) EXCEPT
                        !.current_generation = current_gen + 1]),
                !.current_generation = DictSet(@, name, current_gen + 1)]]

\* advance_generation: what it returns, the tracker after it, whether it saved
AdvanceGeneration(t, name, changes, metrics, now) ==
    IF ~DictHas(t.generations, name)
    THEN [ret |-> FALSE, saved |-> FALSE, tracker |-> t]
    ELSE [ret |-> TRUE, saved |-> TRUE,
          tracker |-> StoreGeneration(t, name, changes, metrics, now,
                                       DictGet(t.current_generation, name))]

\* A run_improvement_cycle call has begun and not returned
InCycle == cycle.pc \notin {"idle", "done"}

TrackerRegister(name, initial_generation, description) ==
    /\ ~InCycle
    /\ trOps < MaxTrackerOps
    /\ trOps' = trOps + 1
    /\ LET r == RegisterComponent(tracker, name, initial_generation, description,
                                  trOps + 1)
       IN /\ tracker' = r.tracker
          /\ disk' = IF r.saved THEN SaveGenerationalData(r.tracker) ELSE disk
          /\ trCall' = [NoCall EXCEPT !.op = "register", !.name = name,
                           !.initial_generation = initial_generation,
                           !.description = description, !.ret = r.ret]
          /\ trInitial' = IF r.ret THEN DictSet(trInitial, name, initial_generation)
                          ELSE trInitial
    /\ UNCHANGED <<managerVars, cycle, restVars>>

TrackerAdvance(name, changes, metrics) ==
    /\ ~InCycle
    /\ trOps < MaxTrackerOps
    /\ trOps' = trOps + 1
    /\ LET r == AdvanceGeneration(tracker, name, changes, metrics, trOps + 1)
       IN /\ tracker' = r.tracker
          /\ disk' = IF r.saved THEN SaveGenerationalData(r.tracker) ELSE disk
          /\ trCall' = [NoCall EXCEPT !.op = "advance", !.name = name,
                           !.changes = changes, !.metrics = metrics, !.ret = r.ret]
    /\ UNCHANGED <<trInitial, managerVars, cycle, restVars>>

\* A new GenerationTracker is built on the same base_path and used from then on
TrackerRestart ==
    /\ ~InCycle
    /\ trOps < MaxTrackerOps
    /\ trOps' = trOps + 1
    /\ tracker' = LoadGenerationalData(disk)
    /\ trCall' = [NoCall EXCEPT !.op = "restart", !.ret = TRUE]
    /\ UNCHANGED <<disk, trInitial, managerVars, cycle, restVars>>

TrackerNext ==
    \/ \E name \in Components, g \in InitialGenerations, d \in Descriptions :
          TrackerRegister(name, g, d)
    \/ \E name \in Components, c \in ChangeSets, m \in MetricSets :
          TrackerAdvance(name, c, m)
    \/ TrackerRestart

TrackerSpec == Init /\ [][TrackerNext]_vars

\* ------------------------------------------- the GenerationalImprovementLoop
\* Variant: the generation is advanced whatever the improvement function returns.
NeedsAdvance_Always(improvements) == TRUE

\* if not improvements: return True
NeedsAdvance(improvements) == improvements # <<>>

\* test_results.get("metrics", {})
CycleMetrics(test_results) ==
    IF DictHas(test_results, "metrics") THEN DictGet(test_results, "metrics")
    ELSE EmptyDict

\* Variant: the cycle reports a failure whatever the validation returned.
CycleReturn_Failed(success, validation_result) == FALSE

\* What the cycle returns once the improvements are not empty
CycleReturn(success, validation_result) == success /\ validation_result

\* run_improvement_cycle, step 1: test_results = test_function()
CycleTest(name, test_results) ==
    /\ ~InCycle
    /\ trOps < MaxTrackerOps
    /\ cycle' = [NoCycle EXCEPT
                   !.pc = "tested", !.name = name,
                   !.registered = DictHas(tracker.generations, name),
                   !.before = IF DictHas(tracker.current_generation, name)
                              THEN DictGet(tracker.current_generation, name) ELSE 0,
                   !.test_results = test_results,
                   !.trace = <<"test">>]
    /\ UNCHANGED <<trackerVars, managerVars, restVars>>

\* Step 2: improvements = improvement_function(test_results), and the return
\* when there is nothing to improve
CycleImprove(improvements) ==
    /\ cycle.pc = "tested"
    /\ cycle' = [cycle EXCEPT
                   !.improvements = improvements,
                   !.trace = Append(@, "improve"),
                   !.pc = IF NeedsAdvance(improvements) THEN "improved" ELSE "done",
                   !.ret = ~NeedsAdvance(improvements)]
    /\ UNCHANGED <<trackerVars, managerVars, restVars>>

\* Steps 3 and 4: the changes are put together and the tracker advances
CycleAdvance ==
    /\ cycle.pc = "improved"
    /\ trOps' = trOps + 1
    /\ LET metrics == CycleMetrics(cycle.test_results)
           r == AdvanceGeneration(tracker, cycle.name, "improvements_applied",
                                  metrics, trOps + 1)
       IN /\ tracker' = r.tracker
          /\ disk' = IF r.saved THEN SaveGenerationalData(r.tracker) ELSE disk
          /\ trCall' = [NoCall EXCEPT !.op = "advance", !.name = cycle.name,
                           !.changes = "improvements_applied",
                           !.metrics = metrics, !.ret = r.ret]
          /\ cycle' = [cycle EXCEPT
                         !.trace = Append(@, "advance"),
                         !.pc = IF r.ret THEN "advanced" ELSE "done",
                         !.ret = IF r.ret THEN @ ELSE CycleReturn(FALSE, FALSE)]
    /\ UNCHANGED <<trInitial, managerVars, restVars>>

\* Step 5: validation_result = validation_function(), and the return
CycleValidate(validation_result) ==
    /\ cycle.pc = "advanced"
    /\ cycle' = [cycle EXCEPT
                   !.trace = Append(@, "validate"),
                   !.valid = validation_result,
                   !.pc = "done",
                   !.ret = CycleReturn(TRUE, validation_result)]
    /\ UNCHANGED <<trackerVars, managerVars, restVars>>

\* Components are registered, and cycles run one after the other
LoopNext ==
    \/ \E name \in Components, g \in InitialGenerations :
          TrackerRegister(name, g, "first")
    \/ \E name \in Components, test_results \in TestResults :
          CycleTest(name, test_results)
    \/ \E improvements \in Improvements : CycleImprove(improvements)
    \/ CycleAdvance
    \/ \E validation_result \in BOOLEAN : CycleValidate(validation_result)

LoopSpec == Init /\ [][LoopNext]_vars

\* ------------------------------------------ the GenerationalBlueprintManager
\* _save_blueprint_version: gen_{generation}.kl of the blueprint is opened with
\* 'w' and written
SaveBlueprintVersion(fs, blueprint_name, generation, content) ==
    {f \in fs : ~(f.name = blueprint_name /\ f.generation = generation)}
        \cup {[name |-> blueprint_name, generation |-> generation, content |-> content]}

\* get_blueprint_version: the content of the file, None without the file
GetBlueprintVersion(fs, blueprint_name, generation) ==
    IF \E f \in fs : f.name = blueprint_name /\ f.generation = generation
    THEN (CHOOSE f \in fs : f.name = blueprint_name /\ f.generation = generation).content
    ELSE Absent

\* get_latest_blueprint: if current_gen: ... return None
GetLatestBlueprint(t, fs, blueprint_name) ==
    IF /\ DictHas(t.current_generation, blueprint_name)
       /\ DictGet(t.current_generation, blueprint_name) # 0
    THEN GetBlueprintVersion(fs, blueprint_name,
                             DictGet(t.current_generation, blueprint_name))
    ELSE Absent

\* register_blueprint: the tracker is asked to register the name, and the
\* content is saved as the initial generation whatever the tracker answered.
\* bpLatest keeps the content of the registration the tracker accepted.
RegisterBlueprint(blueprint_name, content, initial_generation) ==
    /\ ~InCycle
    /\ trOps < MaxTrackerOps
    /\ trOps' = trOps + 1
    /\ LET r == RegisterComponent(tracker, blueprint_name, initial_generation,
                                  "KickLang blueprint", trOps + 1)
       IN /\ tracker' = r.tracker
          /\ disk' = IF r.saved THEN SaveGenerationalData(r.tracker) ELSE disk
          /\ trCall' = [NoCall EXCEPT !.op = "register", !.name = blueprint_name,
                           !.initial_generation = initial_generation,
                           !.description = "KickLang blueprint", !.ret = r.ret]
          /\ trInitial' = IF r.ret
                          THEN DictSet(trInitial, blueprint_name, initial_generation)
                          ELSE trInitial
          /\ bpLatest' = IF r.ret THEN DictSet(bpLatest, blueprint_name, content)
                         ELSE bpLatest
    /\ bpFiles' = SaveBlueprintVersion(bpFiles, blueprint_name, initial_generation, content)
    /\ bpCall' = [op |-> "register_blueprint", name |-> blueprint_name,
                  content |-> content, generation |-> initial_generation, ret |-> TRUE]
    /\ UNCHANGED <<cycle, restVars>>

\* evolve_blueprint: False for a name the tracker does not know; otherwise the
\* content is saved as the next generation and the tracker advances
EvolveBlueprint(blueprint_name, new_content, changes) ==
    /\ ~InCycle
    /\ trOps < MaxTrackerOps
    /\ trOps' = trOps + 1
    /\ IF ~DictHas(tracker.current_generation, blueprint_name)
       THEN /\ bpCall' = [op |-> "evolve_blueprint", name |-> blueprint_name,
                          content |-> new_content, generation |-> 0, ret |-> FALSE]
            /\ UNCHANGED <<tracker, disk, trCall, bpFiles, bpLatest>>
       ELSE LET next_gen == DictGet(tracker.current_generation, blueprint_name) + 1
                r == AdvanceGeneration(tracker, blueprint_name, changes, EmptyDict,
                                       trOps + 1)
            IN /\ bpFiles' = SaveBlueprintVersion(bpFiles, blueprint_name, next_gen,
                                                  new_content)
               /\ tracker' = r.tracker
               /\ disk' = IF r.saved THEN SaveGenerationalData(r.tracker) ELSE disk
               /\ trCall' = [NoCall EXCEPT !.op = "advance", !.name = blueprint_name,
                                !.changes = changes, !.ret = r.ret]
               /\ bpLatest' = IF r.ret THEN DictSet(bpLatest, blueprint_name, new_content)
                              ELSE bpLatest
               /\ bpCall' = [op |-> "evolve_blueprint", name |-> blueprint_name,
                             content |-> new_content, generation |-> next_gen,
                             ret |-> r.ret]
    /\ UNCHANGED <<trInitial, cycle, restVars>>

\* The manager's calls, and advances of the shared tracker by its other users
ManagerNext ==
    \/ \E name \in Components, content \in Contents, g \in BlueprintGenerations :
          RegisterBlueprint(name, content, g)
    \/ \E name \in Components, content \in Contents, changes \in ChangeSets :
          EvolveBlueprint(name, content, changes)
    \/ \E name \in Components, changes \in ChangeSets :
          TrackerAdvance(name, changes, EmptyDict)

ManagerSpec == Init /\ [][ManagerNext]_vars

\* ------------------------------------------------------ the TemporalPredictor
\* Timestamps are whole seconds here. The average interval is a quotient, so
\* predict keeps next_event and now multiplied by the number of intervals (den)
\* and avg_interval as the sum of the intervals: the comparisons and the
\* additions of predict_next are the same on the multiplied numbers.
Times == 0..MaxTime

\* Default to 1 hour from now
DefaultDelay == 3600

\* self.history.append(timestamp); self.history.sort()
RECURSIVE SortedInsert(_, _)
SortedInsert(hist, timestamp) ==
    IF hist = <<>> THEN <<timestamp>>
    ELSE IF timestamp < Head(hist) THEN <<timestamp>> \o hist
    ELSE <<Head(hist)>> \o SortedInsert(Tail(hist), timestamp)

\* intervals = [t2 - t1 for t1, t2 in zip(hist[:-1], hist[1:])]
Intervals(hist) == [i \in 1..(Len(hist) - 1) |-> hist[i + 1] - hist[i]]

\* sum(intervals)
RECURSIVE Sum(_)
Sum(q) == IF q = <<>> THEN 0 ELSE Head(q) + Sum(Tail(q))

\* add_event
AddEvent(timestamp) ==
    /\ predict.pc # "loop"
    /\ Len(events) < MaxEvents
    /\ events' = SortedInsert(events, timestamp)
    /\ UNCHANGED <<predict, engineVars, registryVars, backendVars, generationalVars>>

\* predict_next up to the test of the while loop; now is what the clock shows
PredictStart(now) ==
    /\ predict.pc # "loop"
    /\ IF Len(events) < 2
       THEN predict' = [pc |-> "done", now |-> now, sum |-> 0, den |-> 1,
                        next |-> now + DefaultDelay]
       ELSE LET intervals == Intervals(events)
                den == Len(intervals)
                next_event == events[Len(events)] * den + Sum(intervals)
            IN predict' = [pc |-> IF next_event < now * den THEN "loop" ELSE "done",
                           now |-> now, sum |-> Sum(intervals), den |-> den,
                           next |-> next_event]
    /\ UNCHANGED <<events, engineVars, registryVars, backendVars, generationalVars>>

\* while next_event < now: next_event += avg_interval
PredictLoop ==
    /\ predict.pc = "loop"
    /\ IF predict.next < predict.now * predict.den
       THEN predict' = [predict EXCEPT !.next = @ + predict.sum]
       ELSE predict' = [predict EXCEPT !.pc = "done"]
    /\ UNCHANGED <<events, engineVars, registryVars, backendVars, generationalVars>>

PredictorNext ==
    \/ \E timestamp \in Times : AddEvent(timestamp)
    \/ \E now \in Times : PredictStart(now)
    \/ PredictLoop

PredictorSpec == Init /\ [][PredictorNext]_vars

\* ----------------------------------------------------- registries on their own
\* ToolRegistry.register
RegisterTool(tool) ==
    /\ tools' = ToolRegister(tools, tool)
    /\ lastReg' = [lastReg EXCEPT !.tool[tool.name] = tool]
    /\ UNCHANGED <<agents, engineVars, backendVars, generationalVars, predictorVars>>

\* AgentRegistry.register, as _setup_agents calls it
RegisterAgent(agent) ==
    /\ agents' = AgentRegister(agents, agent)
    /\ lastReg' = [lastReg EXCEPT !.agent[agent.name] = agent]
    /\ UNCHANGED <<tools, engineVars, backendVars, generationalVars, predictorVars>>

RegistryNext ==
    \/ \E n \in ToolNames, c \in ToolClasses : RegisterTool(Tool(n, c))
    \/ \E n \in AgentNames, k \in AgentKinds : RegisterAgent(AgentObj(n, k, 0, Absent))

RegistrySpec == Init /\ [][RegistryNext]_vars

\* ------------------------------------------------------------------ claims
StepOf(e) == e.cfg

HasOutput(step) == step.outputs \notin {Absent, ""}

\* The state keys a step's inputs read
InputKeys(step) ==
    CASE step.inputs.form = "list" ->
           {step.inputs.items[i] : i \in 1..Len(step.inputs.items)}
      [] step.inputs.form = "map" ->
           {step.inputs.items[i].key : i \in 1..Len(step.inputs.items)}
      [] OTHER -> {}

\* The context names under which a step's inputs bind state key `key`
ArgsOf(step, key) ==
    CASE step.inputs.form = "list" -> {key}
      [] step.inputs.form = "map" ->
           {step.inputs.items[i].arg :
               i \in {n \in 1..Len(step.inputs.items) : step.inputs.items[n].key = key}}
      [] OTHER -> {}

SameRun(e1, e2) == e1.orch = e2.orch /\ e1.parent = e2.parent

Before(e1, e2) ==
    \/ e1.phase < e2.phase
    \/ e1.phase = e2.phase /\ e1.step < e2.step

\* C1: execute invokes the steps in document order (all steps of a phase
\* before any step of the next phase, steps of a phase in their listed
\* order), and a step is invoked only after the output of every earlier step
\* is in the workflow state: a step whose inputs name the output key of the
\* latest earlier step writing that key receives that step's result.
C1_DocumentOrder ==
    \A i, j \in 1..Len(log) :
        (i < j /\ SameRun(log[i], log[j])) =>
            /\ Before(log[i], log[j])
            /\ log[i].done
            /\ LET key == StepOf(log[i]).outputs IN
               ( /\ HasOutput(StepOf(log[i]))
                 /\ key \in InputKeys(StepOf(log[j]))
                 /\ ~\E m \in (i + 1)..(j - 1) :
                        SameRun(log[i], log[m]) /\ StepOf(log[m]).outputs = key )
               => \A arg \in ArgsOf(StepOf(log[j]), key) :
                      /\ DictHas(log[j].ctx, arg)
                      /\ DictGet(log[j].ctx, arg) = log[i].result

\* A step of a later phase was invoked with the result of a step of an
\* earlier phase in its context.
C1_Witness ==
    \E i, j \in 1..Len(log) :
        /\ i < j /\ SameRun(log[i], log[j])
        /\ log[i].phase < log[j].phase
        /\ HasOutput(StepOf(log[i]))
        /\ StepOf(log[i]).outputs \in InputKeys(StepOf(log[j]))
        /\ DictGet(log[j].ctx, StepOf(log[i]).outputs) = log[i].result
        /\ log[i].result # NoneV

ListItems(step) == {step.inputs.items[i] : i \in 1..Len(step.inputs.items)}

\* C2: for a step with list-form inputs the context handed to the unit has
\* exactly the listed keys; each is bound to the value the workflow state
\* holds for it, a key missing from the state is bound to None, and no other
\* key of the state is in the context.
C2_ListInputs ==
    \A i \in 1..Len(log) :
        LET e == log[i]
            step == StepOf(e)
        IN step.inputs.form = "list" =>
             /\ DictKeys(e.ctx) = ListItems(step)
             /\ \A key \in ListItems(step) :
                    IF DictHas(e.state, key)
                    THEN DictGet(e.ctx, key) = e.state[KeyIndex(e.state, key)].v
                    ELSE DictGet(e.ctx, key) = NoneV

\* A unit was invoked with a list-form context that binds a key missing from
\* the state to None, binds a key present in the state to a value, and
\* leaves out a key of the state that is not listed.
C2_Witness ==
    \E i \in 1..Len(log) :
        LET e == log[i]
            step == StepOf(e)
        IN /\ step.inputs.form = "list"
           /\ \E key \in ListItems(step) : ~DictHas(e.state, key) /\ DictHas(e.ctx, key)
           /\ \E key \in ListItems(step) :
                  DictHas(e.state, key) /\ DictGet(e.ctx, key) # NoneV
           /\ DictKeys(e.state) \ ListItems(step) # {}

MapItems(step) == {step.inputs.items[i] : i \in 1..Len(step.inputs.items)}

\* C3: for a step with map-form inputs the context handed to the unit has
\* exactly the map's argument names as keys, and each argument name is bound
\* to the value the workflow state holds under the mapped state key.
C3_MapInputs ==
    \A i \in 1..Len(log) :
        LET e == log[i]
            step == StepOf(e)
        IN step.inputs.form = "map" =>
             /\ DictKeys(e.ctx) = {b.arg : b \in MapItems(step)}
             /\ \A b \in MapItems(step) :
                    IF DictHas(e.state, b.key)
                    THEN DictGet(e.ctx, b.arg) = e.state[KeyIndex(e.state, b.key)].v
                    ELSE DictGet(e.ctx, b.arg) = NoneV

\* A unit was invoked with an argument name that is itself a key of the
\* state and is bound to the value of another key, which differs.
C3_Witness ==
    \E i \in 1..Len(log) :
        LET e == log[i]
            step == StepOf(e)
        IN /\ step.inputs.form = "map"
           /\ \E b \in MapItems(step) :
                  /\ b.arg # b.key
                  /\ DictHas(e.state, b.arg) /\ DictHas(e.state, b.key)
                  /\ DictGet(e.state, b.arg) # DictGet(e.state, b.key)
                  /\ DictGet(e.ctx, b.arg) = DictGet(e.state, b.key)

Running == status = "running" /\ execStack # <<>>

AtStep == Running /\ InStep(Top(execStack))

NamesAgent(step) == step.agent \notin {Absent, ""}

NamesTool(step) == step.tool \notin {Absent, ""}

TopOrch == orchs[Top(execStack).orch]

\* The frame one level down finished its step in this transition.
Advanced(d) ==
    /\ d <= Len(execStack) /\ d <= Len(execStack')
    /\ execStack'[d].orch = execStack[d].orch
    /\ execStack'[d].phase = execStack[d].phase
    /\ execStack'[d].step = execStack[d].step + 1

\* C4: a step whose agent name is not in the unit registry is skipped:
\* execute raises no error for it, the workflow state is unchanged by it,
\* and the run goes on with the next step.
C4_MissingUnitSkipped ==
    [][ ( /\ AtStep
          /\ NamesAgent(CurrentStep(Top(execStack)))
          /\ GetAgent(TopOrch.agent_registry, CurrentStep(Top(execStack)).agent) = NoAgent )
        => /\ status' = "running"
           /\ Advanced(Len(execStack))
           /\ heap'[TopOrch.workflow_state] = heap[TopOrch.workflow_state] ]_vars

\* C5: a step that names a tool missing from the tool registry is still
\* executed: the lookup yields no tool and raises nothing, and the unit is
\* invoked with no tool bound.
C5_MissingToolUnbound ==
    [][ ( /\ AtStep
          /\ NamesAgent(CurrentStep(Top(execStack)))
          /\ GetAgent(TopOrch.agent_registry, CurrentStep(Top(execStack)).agent) # NoAgent
          /\ NamesTool(CurrentStep(Top(execStack)))
          /\ ~\E t \in TopOrch.tool_registry : t.name = CurrentStep(Top(execStack)).tool )
        => /\ Len(log') = Len(log) + 1
           /\ log'[Len(log')].orch = Top(execStack).orch
           /\ log'[Len(log')].phase = Top(execStack).phase
           /\ log'[Len(log')].step = Top(execStack).step
           /\ log'[Len(log')].tool = Absent
           /\ GetAgent(TopOrch.agent_registry,
                       CurrentStep(Top(execStack)).agent).kind = "agent"
                  => (status' = "running" /\ log'[Len(log')].done) ]_vars

\* A unit has been invoked, with no tool bound, for a step that names a tool
\* the registry does not hold.
C5_Witness ==
    \E i \in 1..Len(log) :
        /\ NamesTool(StepOf(log[i]))
        /\ ~\E t \in orchs[log[i].orch].tool_registry : t.name = StepOf(log[i]).tool
        /\ log[i].tool = Absent
        /\ log[i].done

\* The objects that are the workflow state of an active run whose current
\* step ends in this transition.
EndingStates ==
    {orchs[execStack[d].orch].workflow_state :
        d \in {n \in 1..Len(execStack) : Advanced(n)}}

\* C6: executing a step changes at most one key of the workflow state: with
\* an output key declared, that key is set to the unit's result and every
\* other key keeps its value; with none declared, the state is unchanged.
\* No dict object other than the workflow state of the step changes.
C6_OneKeyFrame ==
    [][ /\ \A ref \in 1..Len(heap) :
               heap'[ref] # heap[ref] => (Running /\ ref \in EndingStates)
        /\ Running =>
             \A d \in 1..Len(execStack) :
                 (Advanced(d) /\ NamesAgent(CurrentStep(execStack[d]))) =>
                     LET f == execStack[d]
                         step == CurrentStep(f)
                         ws == orchs[f.orch].workflow_state
                         result == log'[IF f.call # 0 THEN f.call ELSE Len(log')].result
                     IN IF HasOutput(step)
                        THEN /\ DictHas(heap'[ws], step.outputs)
                             /\ DictGet(heap'[ws], step.outputs) = result
                             /\ DictKeys(heap'[ws]) = DictKeys(heap[ws]) \cup {step.outputs}
                             /\ \A key \in DictKeys(heap[ws]) \ {step.outputs} :
                                    DictGet(heap'[ws], key) = DictGet(heap[ws], key)
                        ELSE heap'[ws] = heap[ws] ]_vars

\* One unit's result has been stored under its step's output key, next to
\* other keys, and another unit has run for a step that declares no output.
C6_Witness ==
    /\ \E i \in 1..Len(log) :
           /\ log[i].done /\ HasOutput(StepOf(log[i]))
           /\ orchs[log[i].orch].workflow_state # 0
           /\ DictGet(heap[orchs[log[i].orch].workflow_state], StepOf(log[i]).outputs)
                  = log[i].result
           /\ Len(heap[orchs[log[i].orch].workflow_state]) > 1
    /\ \E i \in 1..Len(log) : log[i].done /\ ~HasOutput(StepOf(log[i]))

\* The activations that wait for a Holon's sub-run
Pending == 1..(Len(execStack) - 1)

\* C7: while a Holon runs as a step, nothing its sub-run writes into its
\* private state shows in the parent's workflow state or in the context
\* object the parent passed in; the parent's state changes only when the
\* Holon returns, and then only at the step's output key, which receives
\* the Holon's result.
C7_HolonIsolation ==
    [][ Running =>
          \A d \in Pending :
              LET f == execStack[d]
                  ws == orchs[f.orch].workflow_state
                  step == CurrentStep(f)
              IN /\ heap'[f.ctx] = heap[f.ctx]
                 /\ heap'[ws] # heap[ws] =>
                      /\ Len(execStack') = d /\ Advanced(d)
                      /\ HasOutput(step)
                      /\ heap'[ws] = DictSet(heap[ws], step.outputs, log'[f.call].result)
                      /\ log'[f.call].done ]_vars

\* A sub-run is active whose private state holds a key the parent's context
\* did not pass and a value for n that differs from the parent's n = 5.
C7_Witness ==
    /\ Running
    /\ \E d \in Pending :
           LET f == execStack[d]
               parent == heap[orchs[f.orch].workflow_state]
               private == heap[orchs[execStack[d + 1].orch].workflow_state]
           IN /\ DictKeys(private) \ DictKeys(heap[f.ctx]) # {}
              /\ DictGet(parent, "n") = IntV(5)
              /\ DictGet(heap[f.ctx], "n") = IntV(5)
              /\ DictGet(private, "n") # IntV(5)

HolonOf(e) == e.unit

HolonCalls == {i \in 1..Len(log) : log[i].done /\ HolonOf(log[i]).kind = "holon"}

\* The final state of the sub-run behind a finished Holon call
SubState(e) == heap[orchs[HolonOf(e).orch].workflow_state]

\* t holds s as a contiguous run of tokens starting at position i
TokensAt(t, i, s) == i + Len(s) - 1 <= Len(t) /\ SubSeq(t, i, i + Len(s) - 1) = s

\* C8 as claimed: the result of a Holon is a structured value (a mapping
\* with the unit's name and the sub-state), from which the parent can read a
\* sub-state key.
C8_StructuredResult ==
    \A i \in HolonCalls : log[i].result.kind = "dict"

\* C8, amended: the result of a Holon is one str, the text "Holon <name>
\* completed sub-workflow. Results: " followed by the rendering of the full
\* final sub-state, in which every key of the sub-state is followed by the
\* repr of its value; when the Holon returns, the parent's own keys other
\* than the output key have the values they had when it was called.
C8_SummaryString ==
    \A i \in HolonCalls :
        LET e == log[i]
            t == e.result.toks
        IN /\ e.result.kind = "str"
           /\ Len(t) >= 3 /\ t[1] = "Holon " /\ t[2] = StepOf(e).agent
           /\ \A n \in 1..Len(SubState(e)) :
                  \E p \in 1..Len(t) :
                      TokensAt(t, p, <<"'", SubState(e)[n].k, "'", ": ">>
                                     \o ReprValue(SubState(e)[n].v))
           /\ i = Len(log) =>
                  \A key \in DictKeys(e.state) \ {StepOf(e).outputs} :
                      DictGet(heap[orchs[e.orch].workflow_state], key) = DictGet(e.state, key)

\* A Holon has returned to a parent whose n is 5; its sub-run classified the
\* text and replaced its private n.
C8_Witness ==
    \E i \in HolonCalls :
        /\ DictGet(SubState(log[i]), "label") = StrV(<<"url">>)
        /\ DictGet(SubState(log[i]), "n") # IntV(5)
        /\ DictHas(SubState(log[i]), "n")
        /\ DictGet(heap[orchs[log[i].orch].workflow_state], "n") = IntV(5)
        /\ DictGet(heap[orchs[log[i].orch].workflow_state], StepOf(log[i]).outputs)
               = log[i].result

\* execute has ended with an error that came out of a unit's execute
FailedInUnit ==
    /\ status = "idle" /\ outcome.call = "execute" /\ outcome.err # ""
    /\ log # <<>> /\ ~log[Len(log)].done

\* C9: an error raised inside a step aborts execute, no later step runs,
\* and the partial workflow state is discarded: after the failure the
\* engine shows none of the results stored by the steps that ran before the
\* failing one.
C9_PartialStateDiscarded ==
    FailedInUnit =>
        \A i \in 1..Len(log) :
            (log[i].depth = 1 /\ log[i].done /\ HasOutput(StepOf(log[i]))) =>
                \/ orchs[1].workflow_state = 0
                \/ ~DictHas(heap[orchs[1].workflow_state], StepOf(log[i]).outputs)

\* C10: a chain of Holons whose sub-documents lead back to a document of the
\* chain is cut by the engine before the interpreter's stack is exhausted:
\* the load never ends in the interpreter's own RecursionError.
C10_RecursionLimited == outcome.err # "RecursionError"

\* The caller's latest call was a load_blueprint that raised
LoadFailed == status = "idle" /\ outcome.call = "load" /\ outcome.err # ""

\* C11: load_blueprint is atomic: when it fails, for whatever reason, the
\* engine's current document and its unit registry are exactly what they
\* were before the call, so no unit of the failed document is registered.
C11_LoadAtomic ==
    LoadFailed =>
        /\ orchs[1].blueprint = preLoad.before.blueprint
        /\ orchs[1].agent_registry = preLoad.before.agent_registry

\* The caller's latest call was a load_blueprint of a file that parses
LoadedParsed ==
    /\ status = "idle"
    /\ outcome.call = "load"
    /\ preLoad.path \in Paths
    /\ FileData(preLoad.path).shape # "invalid_yaml"

\* C12: the loader accepts exactly two shapes, a list whose first element
\* becomes the document body and a map; a document of any other parsed shape
\* (a scalar, an empty document, an empty list, a list whose first element is
\* not a map) is rejected with the invalid-shape error and fails in no
\* other way.
C12_ShapeRejected ==
    LoadedParsed =>
        IF FileData(preLoad.path).shape \in {"list", "dict"}
        THEN outcome.err # "ValueError" /\ orchs[1].blueprint = preLoad.path
        ELSE outcome.err = "ValueError"

\* The caller's latest execute call
LastRun == history[Len(history)]

SideEffectTools == {"shell_exec", "read_file", "write_file"}

\* No unit invoked in the run was handed such a tool
PureRun(run) == \A k \in 1..Len(run.log) : run.log[k].tool \notin SideEffectTools

InExecute(r) == reqs[r].pc \in {"resolve", "store", "return"}

\* C14: execute calls on the backend's shared engine never overlap, so the
\* final state returned to a request holds only values derived from that
\* request's own initial state.
C14_RequestsSerialized ==
    /\ \A r1, r2 \in Requests : (InExecute(r1) /\ InExecute(r2)) => r1 = r2
    /\ \A r \in Requests :
          reqs[r].pc = "done" =>
              \A i \in 1..Len(bheap[reqs[r].ret]) :
                  bheap[reqs[r].ret][i].v = Entries(r)

\* C15: execute works on a copy of the caller's initial state: the mapping
\* the caller passed has the same keys and bindings while the run goes on
\* and after it has returned, and the run starts from that mapping, the
\* empty one when no initial state is given.
C15_CallerStateKept ==
    /\ callerCtx # 0 => heap[callerCtx] = LastRun.ctx
    /\ (status = "running" /\ log = <<>>) =>
           heap[orchs[1].workflow_state] = LastRun.ctx

\* A run has returned a state in which a key of the caller's mapping is
\* bound to another value
C15_Witness ==
    /\ status = "idle"
    /\ outcome.call = "execute" /\ outcome.err = ""
    /\ callerCtx # 0
    /\ DictHas(heap[callerCtx], "label")
    /\ DictGet(heap[outcome.ret], "label") # DictGet(heap[callerCtx], "label")

\* C16: during execute only the workflow state changes: the unit registry,
\* the tool registry and the loaded document of every engine are the same
\* before and after each step of a run, its entry and its return.
C16_OnlyStateChanges ==
    [][(status = "running" \/ status' = "running") => Engine(orchs') = Engine(orchs)]_vars

\* A run of at least four unit invocations has returned, on an engine with
\* registered units
C16_Witness ==
    /\ status = "idle"
    /\ outcome.call = "execute" /\ outcome.err = ""
    /\ Len(log) >= 4
    /\ orchs[1].agent_registry # {}
    /\ Engine(orchs) = LastRun.engine

\* C17: a composite unit keeps the engine and the sub-document it was built
\* with and uses them for every call, and each call's sub-run starts from a
\* new state object equal to that call's context: what an earlier sub-run
\* wrote is not in it unless the context supplies it.
C17_HolonFreshState ==
    [][(status = "running" /\ status' = "running"
          /\ Len(execStack') = Len(execStack) + 1) =>
        LET p == Top(execStack)
            unit == GetAgent(orchs[p.orch].agent_registry, CurrentStep(p).agent)
            sub == Top(execStack').orch
        IN /\ sub = unit.orch
           /\ Len(orchs') = Len(orchs)
           /\ orchs'[sub].blueprint = orchs[sub].blueprint
           /\ orchs'[sub].blueprint = unit.blueprint_path
           /\ orchs'[sub].workflow_state > Len(heap)
           /\ heap'[orchs'[sub].workflow_state] = log'[Len(log')].ctx]_vars

\* A Holon is entered again, in a later run on the same engine, after an
\* earlier call of it has returned; its new state has no key "label"
C17_Witness ==
    /\ status = "running"
    /\ Len(execStack) = 2
    /\ Len(history) >= 2
    /\ history[1].over /\ history[1].engine = LastRun.engine
    /\ \E k \in 1..Len(history[1].log) :
          /\ history[1].log[k].unit.kind = "holon"
          /\ history[1].log[k].done
          /\ history[1].log[k].unit = log[Len(log)].unit
    /\ ~log[Len(log)].done
    /\ orchs[Top(execStack).orch].workflow_state # 0
    /\ ~DictHas(heap[orchs[Top(execStack).orch].workflow_state], "label")

\* C18: registering under a name that is already registered overwrites:
\* after any sequence of register calls a lookup returns the item of the
\* latest register call with that name, and None for a name no call used.
C18_LastRegistrationWins ==
    /\ \A n \in DOMAIN lastReg.tool : GetTool(tools, n) = lastReg.tool[n]
    /\ GetTool(tools, "never_registered") = NoTool
    /\ \A n \in DOMAIN lastReg.agent : GetAgent(agents, n) = lastReg.agent[n]
    /\ GetAgent(agents, "never_registered") = NoAgent

\* A default tool was replaced and a unit re-registered as another kind,
\* while "custom_tool" has not been registered at all
C18_Witness ==
    /\ GetTool(tools, "shell_exec").cls = "CustomTool"
    /\ GetTool(tools, "read_file").cls = "FileReadTool"
    /\ GetTool(tools, "custom_tool") = NoTool
    /\ GetAgent(agents, "Echo").kind = "holon"
    /\ Cardinality(tools) = 3

\* component_name in self.generations
Registered(t, name) == DictHas(t.generations, name)

\* get_generation_history of a registered component
GenerationHistory(t, name) == DictGet(t.generations, name).generations

\* get_current_generation of a registered component
CurrentGeneration(t, name) == DictGet(t.current_generation, name)

\* The step is a call of the tracker's operation op
TrackerCall(op) == trOps' = trOps + 1 /\ trCall'.op = op

\* C19: register_component returns True and records the component at its
\* initial generation when the name is new; when the name is registered it
\* returns False and leaves the tracker (current generation, description,
\* history, metrics) and its files as they were, whatever initial generation
\* the call gives.
C19_RegisterOnce ==
    [][TrackerCall("register") =>
        LET name == trCall'.name IN
        IF Registered(tracker, name)
        THEN trCall'.ret = FALSE /\ tracker' = tracker /\ disk' = disk
        ELSE /\ trCall'.ret = TRUE
             /\ Registered(tracker', name)
             /\ CurrentGeneration(tracker', name) = trCall'.initial_generation
             /\ DictGet(tracker'.generations, name).current_generation =
                    trCall'.initial_generation
             /\ DictGet(tracker'.generations, name).description = trCall'.description
             /\ GenerationHistory(tracker', name) = EmptyDict
             /\ \A other \in Components \ {name} :
                   /\ Registered(tracker', other) = Registered(tracker, other)
                   /\ Registered(tracker, other) =>
                         /\ DictGet(tracker'.generations, other) =
                                DictGet(tracker.generations, other)
                         /\ CurrentGeneration(tracker', other) =
                                CurrentGeneration(tracker, other)]_vars

\* A component that has advanced was registered again with another initial
\* generation and another description, and the call returned False
C19_Witness ==
    /\ trCall.op = "register"
    /\ trCall.ret = FALSE
    /\ Registered(tracker, trCall.name)
    /\ GenerationHistory(tracker, trCall.name) # EmptyDict
    /\ CurrentGeneration(tracker, trCall.name) # trCall.initial_generation
    /\ DictGet(tracker.generations, trCall.name).description # trCall.description

\* C20: advance_generation on a registered component returns True, raises its
\* current generation by exactly one and adds one history entry, keyed by the
\* generation it had before the call; on an unregistered component it
\* returns False and changes nothing.
C20_AdvanceByOne ==
    [][TrackerCall("advance") =>
        LET name == trCall'.name
            before == CurrentGeneration(tracker, name)
        IN
        IF Registered(tracker, name)
        THEN /\ trCall'.ret = TRUE
             /\ CurrentGeneration(tracker', name) = before + 1
             /\ DictGet(tracker'.generations, name).current_generation = before + 1
             /\ Len(GenerationHistory(tracker', name)) =
                    Len(GenerationHistory(tracker, name)) + 1
             /\ ~DictHas(GenerationHistory(tracker, name), IntV(before))
             /\ DictHas(GenerationHistory(tracker', name), IntV(before))
             /\ DictGet(GenerationHistory(tracker', name), IntV(before)).version = before
             /\ \A i \in 1..Len(GenerationHistory(tracker, name)) :
                   GenerationHistory(tracker', name)[i] = GenerationHistory(tracker, name)[i]
        ELSE trCall'.ret = FALSE /\ tracker' = tracker /\ disk' = disk]_vars

\* A component registered at generation 2 was advanced, the tracker was
\* rebuilt from its files, and the component was advanced again
C20_Witness ==
    /\ trCall.op = "advance"
    /\ trCall.ret = TRUE
    /\ CurrentGeneration(tracker, trCall.name) = 4
    /\ DictHas(GenerationHistory(tracker, trCall.name), StrV(IntToks(2)))
    /\ DictHas(GenerationHistory(tracker, trCall.name), IntV(3))

\* The keys of a dict, in order
KeySeq(d) == [i \in 1..Len(d) |-> d[i].k]

\* C21: tracker state survives a restart: a GenerationTracker built on the
\* base path of another reports for every component the same current
\* generation and a history with the same entries (the same generation keys,
\* the same count) as the tracker that wrote the files.
C21_SurvivesRestart ==
    [][TrackerCall("restart") =>
        \A name \in Components :
            /\ Registered(tracker', name) = Registered(tracker, name)
            /\ Registered(tracker, name) =>
                  /\ CurrentGeneration(tracker', name) = CurrentGeneration(tracker, name)
                  /\ Len(GenerationHistory(tracker', name)) =
                         Len(GenerationHistory(tracker, name))
                  /\ KeySeq(GenerationHistory(tracker', name)) =
                         KeySeq(GenerationHistory(tracker, name))]_vars

\* C25: in every reachable state of a tracker the names in current_generation
\* are the names in generations, and for each name the generation recorded in
\* generations[name] is the one recorded in current_generation[name].
C25_RecordsAgree ==
    /\ DictKeys(tracker.current_generation) = DictKeys(tracker.generations)
    /\ \A name \in DictKeys(tracker.generations) :
          DictGet(tracker.generations, name).current_generation
              = DictGet(tracker.current_generation, name)

\* A tracker read back from its files holds an advanced component
C25_Witness ==
    /\ trCall.op = "restart"
    /\ \E name \in Components :
          /\ Registered(tracker, name)
          /\ CurrentGeneration(tracker, name) > DictGet(trInitial, name)
          /\ DictGet(tracker.generations, name).current_generation
                = CurrentGeneration(tracker, name)

\* The entries of a history that record the generation g
EntriesFor(h, g) == {i \in 1..Len(h) : h[i].v.version = g}

\* One entry for each generation from the initial one to the one before the
\* current one, and no other entry
GapFree(t, name) ==
    LET h == GenerationHistory(t, name)
        first == DictGet(trInitial, name)
        current == CurrentGeneration(t, name)
    IN /\ Len(h) = current - first
       /\ \A g \in first..(current - 1) : Cardinality(EntriesFor(h, g)) = 1

\* Each entry of the history before the step is an entry after it
EntriesKept(name) ==
    LET h == GenerationHistory(tracker, name)
        hh == GenerationHistory(tracker', name)
    IN /\ Registered(tracker', name)
       /\ \A i \in 1..Len(h) : \E j \in 1..Len(hh) : hh[j].v = h[i].v

\* C26: a component's history holds exactly one entry for each generation from
\* its initial generation to the one before its current generation, so as many
\* entries as the generation has risen, and no step replaces or removes one.
C26_HistoryGapFree ==
    /\ [](\A name \in Components : Registered(tracker, name) => GapFree(tracker, name))
    /\ [][\A name \in Components : Registered(tracker, name) => EntriesKept(name)]_vars

\* A component advanced twice from its initial generation
C26_Witness ==
    \E name \in Components :
        /\ Registered(tracker, name)
        /\ CurrentGeneration(tracker, name) = DictGet(trInitial, name) + 2
        /\ Len(GenerationHistory(tracker, name)) = 2

\* A prefix of the order of the steps of a cycle
StepsInOrder(trace) == \E n \in 0..Len(CycleOrder) : trace = SubSeq(CycleOrder, 1, n)

\* C24: a cycle on a registered component runs the test, the improvement
\* analysis, the generation advance and the validation in that order; the
\* generation rises at the advance and by exactly one, and it rises if and only
\* if the improvement function returned a list that is not empty; with an empty
\* list the cycle returns True, advances nothing and calls no validation.
C24_CycleOrder ==
    /\ StepsInOrder(cycle.trace)
    /\ (cycle.pc # "idle" /\ cycle.registered) =>
          LET generation == CurrentGeneration(tracker, cycle.name)
          IN /\ generation = IF \E i \in 1..Len(cycle.trace) : cycle.trace[i] = "advance"
                             THEN cycle.before + 1 ELSE cycle.before
             /\ cycle.pc = "done" =>
                   /\ (generation = cycle.before + 1) <=> (cycle.improvements # <<>>)
                   /\ cycle.improvements # <<>> => cycle.trace = CycleOrder
                   /\ cycle.improvements = <<>> =>
                         /\ cycle.ret = TRUE
                         /\ cycle.trace = <<"test", "improve">>

\* A cycle with improvements has run all four steps and raised the generation
C24_Witness ==
    /\ cycle.pc = "done"
    /\ cycle.registered
    /\ cycle.improvements # <<>>
    /\ cycle.trace = CycleOrder
    /\ CurrentGeneration(tracker, cycle.name) = cycle.before + 1

\* The history of the component of the cycle records the generation it left
LeftRecorded ==
    /\ CurrentGeneration(tracker, cycle.name) = cycle.before + 1
    /\ Cardinality(EntriesFor(GenerationHistory(tracker, cycle.name), cycle.before)) = 1

\* C27: a cycle returns False only when the generation could not be advanced,
\* the component not being registered, or when the validation failed; after a
\* failed validation the component stays at the advanced generation, with the
\* new history entry.
C27_FalseOnlyOnFailure ==
    /\ (cycle.pc = "done" /\ cycle.ret = FALSE) =>
          \/ /\ ~cycle.registered
             /\ cycle.trace = <<"test", "improve", "advance">>
          \/ /\ cycle.registered
             /\ cycle.trace = CycleOrder
             /\ ~cycle.valid
    /\ (cycle.pc = "done" /\ cycle.trace = CycleOrder /\ ~cycle.valid) => LeftRecorded

\* A cycle has returned False after a failed validation
C27_Witness ==
    /\ cycle.pc = "done"
    /\ cycle.ret = FALSE
    /\ cycle.registered
    /\ ~cycle.valid
    /\ LeftRecorded

\* C22: stored blueprint versions are append-only: the content saved for a
\* generation of a blueprint is what get_blueprint_version returns for that
\* name and generation after every later register_blueprint and
\* evolve_blueprint call; no version is overwritten or removed.
C22_VersionsAppendOnly ==
    [][\A f \in bpFiles :
          GetBlueprintVersion(bpFiles', f.name, f.generation) = f.content]_vars

\* C23: for a registered blueprint get_latest_blueprint returns the content of
\* the most recent successful evolve_blueprint, or of register_blueprint if it
\* was never evolved, whatever the initial generation and also after other
\* callers advanced the tracker's generation for the name; evolve_blueprint on
\* an unregistered name returns False and stores nothing.
C23_LatestIsNewest ==
    /\ [](\A name \in DictKeys(bpLatest) :
            GetLatestBlueprint(tracker, bpFiles, name) = DictGet(bpLatest, name))
    /\ [][(/\ bpCall' # bpCall
           /\ bpCall'.op = "evolve_blueprint"
           /\ ~Registered(tracker, bpCall'.name))
          => (/\ bpCall'.ret = FALSE
              /\ bpFiles' = bpFiles
              /\ tracker' = tracker
              /\ disk' = disk)]_vars

\* C28: predict_next terminates for every event history and returns a time not
\* earlier than the current time: a pass of the forward-projection loop moves
\* next_event towards now, also when the events of the history have identical
\* timestamps and the last one is in the past, and the time returned is now or
\* later.
C28_PredictTerminates ==
    /\ (predict.pc = "loop" /\ predict.next < predict.now * predict.den)
          => predict.sum > 0
    /\ predict.pc = "done" => predict.next >= predict.now * predict.den

\* C29: a step with no agent field, or an empty one, is skipped before any
\* lookup: no unit and no tool is invoked, its output key is not written, the
\* workflow state is unchanged, and the run goes on with the next step of the
\* phase.
C29_NoAgentSkipped ==
    [][ (AtStep /\ ~NamesAgent(CurrentStep(Top(execStack))))
        => /\ status' = "running"
           /\ Advanced(Len(execStack))
           /\ Len(execStack') = Len(execStack)
           /\ log' = log
           /\ heap' = heap
           /\ orchs' = orchs
           /\ files' = files ]_vars

\* A run is over in which the step after a step without agent was invoked,
\* and the state returned lacks the output key of the step without agent
C29_Witness ==
    /\ status = "idle" /\ outcome.call = "execute" /\ outcome.err = ""
    /\ \E i \in 1..Len(log) :
          LET e == log[i]
              steps == Structural(orchs[e.orch])[e.phase].steps
          IN /\ e.depth = 1 /\ e.done /\ e.step > 1
             /\ steps[e.step] = e.cfg
             /\ ~NamesAgent(steps[e.step - 1])
             /\ HasOutput(steps[e.step - 1])
             /\ ~DictHas(heap[outcome.ret], steps[e.step - 1].outputs)
             /\ \A j \in 1..Len(log) :
                    ~(log[j].depth = 1 /\ log[j].phase = e.phase /\ log[j].step = e.step - 1)

\* The engine holds no document: load_blueprint never bound one
Unloaded(o) == o.blueprint = Absent

\* C30: execute on an engine with no loaded document ends with an error and
\* returns no state; so does the private engine of a composite unit declared
\* by type tag without a sub-document path, and the step that runs such a
\* unit makes the whole execute fail.
C30_ExecuteNeedsLoad ==
    [][ /\ (status = "idle" /\ Len(history') = Len(history) + 1 /\ Unloaded(orchs[1]))
           => /\ status' = "idle"
              /\ outcome'.call = "execute"
              /\ outcome'.err # ""
              /\ outcome'.ret = 0
              /\ orchs' = orchs
        /\ (/\ AtStep
            /\ NamesAgent(CurrentStep(Top(execStack)))
            /\ LET unit == GetAgent(TopOrch.agent_registry, CurrentStep(Top(execStack)).agent)
               IN unit # NoAgent /\ unit.kind = "holon" /\ Unloaded(orchs[unit.orch]))
           => /\ status' = "idle"
              /\ outcome'.call = "execute"
              /\ outcome'.err # ""
              /\ outcome'.ret = 0 ]_vars

\* An execute call failed in a step whose unit is a Holon without a document
C30_Witness ==
    /\ status = "idle" /\ outcome.call = "execute" /\ outcome.err = "AttributeError"
    /\ log # <<>>
    /\ LET e == log[Len(log)]
       IN /\ ~e.done
          /\ e.unit.kind = "holon"
          /\ e.unit.blueprint_path = Absent
          /\ Unloaded(orchs[e.unit.orch])

====
